---- MODULE Spec2Model ----
(***************************************************************************)
(* A model of the Odoo read-only gateway (src/app.py): the allow-list      *)
(* guard of _odoo_call, the five POST endpoints, the parsing helpers and   *)
(* the query normalizer / token domain builder.                            *)
(*                                                                         *)
(* A Python str is a sequence of characters; a character is a one-letter   *)
(* TLA+ string, or the label "U+XXXX" of a code point outside ASCII.       *)
(* A Python value that travels as JSON / XML-RPC is a tagged record        *)
(* [t |-> type, v |-> payload].                                            *)
(***************************************************************************)
EXTENDS Integers, Sequences, FiniteSets, TLC

VARIABLES
    pc,      \* per request: "idle", "waiting" (execute_kw in flight), "done"
    req,     \* per request: the endpoint and the request body
    frame,   \* per request: the _odoo_call in progress (model, method, args, kwargs)
    resp,    \* per request: the HTTP response
    wire,    \* per request: the execute_kw invocations that reached the Remote
             \* Data Service, in order
    reply,   \* per request: what the Remote Data Service answered
    fin,     \* input of the helper under study (helper specifications)
    fout     \* its outputs

vars == <<pc, req, frame, resp, wire, reply, fin, fout>>

\* ------------------------------------------------------------------ bounds

MaxReq == 2
MaxPieces == 4
MaxDomLen == 3
MaxNormLen == 3
MaxResults == 2

\* ------------------------------------------------------- Python values

None == <<"None">>

PyNone == [t |-> "None", v |-> <<>>]

PyStr(s) == [t |-> "str", v |-> s]

PyList(items) == [t |-> "list", v |-> items]

PyInt(digits) == [t |-> "int", v |-> digits]

PyFloat(lit) == [t |-> "float", v |-> lit]

RECURSIVE Concat(_)
Concat(ss) == IF ss = <<>> THEN <<>> ELSE Head(ss) \o Concat(Tail(ss))

\* ------------------------------------------------- characters (unicodedata)

\* str.isspace(): what str.strip() trims and what \s matches in re.
isspace(c) == c \in {" ", "TAB"}

\* str.lower() on one character. U+1D400 (MATHEMATICAL BOLD CAPITAL A) has
\* no lowercase mapping.
lower_c(c) ==
    CASE c = "A" -> "a"
      [] c = "B" -> "b"
      [] c = "C" -> "c"
      [] OTHER   -> c

\* unicodedata.normalize("NFKD", c) on one character:
\*   U+00E1 (a with acute)        -> a, U+0301
\*   U+00B4 (ACUTE ACCENT)        -> SPACE, U+0301
\*   U+1D400 (math bold capital A) -> A
NFKD_c(c) ==
    CASE c = "U+00E1"  -> <<"a", "U+0301">>
      [] c = "U+00B4"  -> <<" ", "U+0301">>
      [] c = "U+1D400" -> <<"A">>
      [] OTHER         -> <<c>>

\* unicodedata.combining(c): the canonical combining class (230 for U+0301).
combining(c) == IF c = "U+0301" THEN 230 ELSE 0

RECURSIVE lstrip(_)
lstrip(s) ==
    IF s = <<>> THEN s
    ELSE IF isspace(Head(s)) THEN lstrip(Tail(s)) ELSE s

RECURSIVE rstrip(_)
rstrip(s) ==
    IF s = <<>> THEN s
    ELSE IF isspace(s[Len(s)]) THEN rstrip(SubSeq(s, 1, Len(s) - 1)) ELSE s

strip(s) == rstrip(lstrip(s))

lower(s) == [i \in 1..Len(s) |-> lower_c(s[i])]

NFKD(s) == Concat([i \in 1..Len(s) |-> NFKD_c(s[i])])

\* re.sub(r"\s+", " ", s)
RECURSIVE collapse_ws(_)
collapse_ws(s) ==
    IF s = <<>> THEN s
    ELSE IF isspace(Head(s)) THEN <<" ">> \o collapse_ws(lstrip(s))
    ELSE <<Head(s)>> \o collapse_ws(Tail(s))

\* _normalize, with the step order of the source: strip and lower first,
\* then decompose, drop the combining marks, collapse whitespace runs.
_normalize(s) ==
    LET s0 == IF s = None \/ s = <<>> THEN <<>> ELSE s
        s1 == lower(strip(s0))
        s2 == NFKD(s1)
        s3 == SelectSeq(s2, LAMBDA c : combining(c) = 0)
    IN  collapse_ws(s3)

\* str.split(sep) for a one-character separator: empty pieces are kept.
RECURSIVE split(_, _)
split(s, sep) ==
    IF \A i \in 1..Len(s) : s[i] # sep THEN <<s>>
    ELSE LET k == CHOOSE i \in 1..Len(s) :
                      s[i] = sep /\ \A j \in 1..(i - 1) : s[j] # sep
         IN  <<SubSeq(s, 1, k - 1)>> \o split(SubSeq(s, k + 1, Len(s)), sep)

\* Python's `t in name` on strings.
contains(name, t) ==
    \E i \in 0..(Len(name) - Len(t)) : SubSeq(name, i + 1, i + Len(t)) = t

\* --------------------------------------------------------- domain builder

NAME == <<"n", "a", "m", "e">>

ILIKE == <<"i", "l", "i", "k", "e">>

leaf(field, tok) == PyList(<<PyStr(field), PyStr(ILIKE), PyStr(tok)>>)

OR_MARK == PyStr(<<"|">>)

\* A plausible slip: the fallback to the whole query is forgotten.
tokens_of_no_fallback(qn) == SelectSeq(split(qn, " "), LAMBDA t : Len(t) >= 2)

\* tokens = [t for t in qn.split(" ") if len(t) >= 2]; if not tokens: [qn]
tokens_of(qn) ==
    LET kept == SelectSeq(split(qn, " "), LAMBDA t : Len(t) >= 2)
    IN  IF kept = <<>> THEN <<qn>> ELSE kept

\* A plausible slip: one OR marker per token instead of one per pair.
_token_or_domain_one_or_per_token(field, q) ==
    LET tokens == tokens_of(_normalize(q))
    IN  PyList([i \in 1..Len(tokens) |-> OR_MARK]
               \o [i \in 1..Len(tokens) |-> leaf(field, tokens[i])])

_token_or_domain(field, q) ==
    LET qn == _normalize(q)
        tokens == tokens_of(qn)
    IN  IF Len(tokens) = 1
        THEN PyList(<<leaf(field, tokens[1])>>)
        ELSE PyList([i \in 1..(Len(tokens) - 1) |-> OR_MARK]
                    \o [i \in 1..Len(tokens) |-> leaf(field, tokens[i])])

\* ------------------------------------------------------------ json.loads

\* The JSON whitespace the decoder skips, from position i on.
RECURSIVE skip_ws(_, _)
skip_ws(s, i) == IF i <= Len(s) /\ s[i] = " " THEN skip_ws(s, i + 1) ELSE i

RECURSIVE digits_end(_, _)
digits_end(s, i) == IF i <= Len(s) /\ s[i] = "1" THEN digits_end(s, i + 1) ELSE i

JsonError == [ok |-> FALSE]

JsonValue(val, end) == [ok |-> TRUE, val |-> val, end |-> end]

\* json.scanner's scan_once at position i, on the characters [ ] , 1 N a and
\* the space: an array, an integer, or the constant NaN, which Python's
\* decoder accepts although it is no JSON (parse_constant).
RECURSIVE scan_once(_, _)
RECURSIVE JSONArray(_, _, _)
scan_once(s, i) ==
    IF i > Len(s) THEN JsonError
    ELSE CASE s[i] = "[" ->
                LET j == skip_ws(s, i + 1)
                IN  IF j <= Len(s) /\ s[j] = "]"
                    THEN JsonValue(PyList(<<>>), j + 1)
                    ELSE JSONArray(s, j, <<>>)
           [] s[i] = "1" ->
                JsonValue(PyInt(SubSeq(s, i, digits_end(s, i) - 1)), digits_end(s, i))
           [] s[i] = "N" /\ i + 2 <= Len(s) /\ SubSeq(s, i, i + 2) = <<"N", "a", "N">> ->
                JsonValue(PyFloat(<<"n", "a", "n">>), i + 3)
           [] OTHER -> JsonError

JSONArray(s, i, acc) ==
    LET item == scan_once(s, i)
    IN  IF ~item.ok THEN JsonError
        ELSE LET k == skip_ws(s, item.end)
             IN  IF k > Len(s) THEN JsonError
                 ELSE IF s[k] = "]" THEN JsonValue(PyList(Append(acc, item.val)), k + 1)
                 ELSE IF s[k] = "," THEN JSONArray(s, skip_ws(s, k + 1), Append(acc, item.val))
                 ELSE JsonError

\* json.loads(s): one value, whitespace around it, nothing after it.
json_loads(s) ==
    LET got == scan_once(s, skip_ws(s, 1))
    IN  IF got.ok /\ skip_ws(s, got.end) = Len(s) + 1 THEN got ELSE JsonError

\* ------------------------------------------------------- parsing helpers

Return(val) == [ok |-> TRUE, val |-> val]

HTTPException(status_code, detail) ==
    [ok |-> FALSE, status |-> status_code, detail |-> detail]

_parse_domain(domain) ==
    IF domain.t = "None" THEN Return(PyList(<<>>))
    ELSE IF domain.t = "list" THEN Return(domain)
    ELSE IF domain.t = "str"
    THEN LET d == strip(domain.v)
         IN  IF d = <<>> THEN Return(PyList(<<>>))
             ELSE IF json_loads(d).ok THEN Return(json_loads(d).val)
             ELSE HTTPException(400, <<"domain must be JSON (stringified) or a JSON list.">>)
    ELSE HTTPException(400, <<"domain must be JSON (string) or list.">>)

_parse_fields(fields) ==
    IF fields.t = "None" THEN Return(PyList(<<>>))
    ELSE IF fields.t = "list" THEN Return(fields)
    ELSE IF fields.t = "str"
    THEN LET f == strip(fields.v)
             parts == [i \in 1..Len(split(f, ",")) |-> strip(split(f, ",")[i])]
             kept == SelectSeq(parts, LAMBDA x : x # <<>>)
         IN  IF f = <<>> THEN Return(PyList(<<>>))
             ELSE IF Head(f) = "[" /\ json_loads(f).ok THEN Return(json_loads(f).val)
             ELSE Return(PyList([i \in 1..Len(kept) |-> PyStr(kept[i])]))
    ELSE HTTPException(400, <<"fields must be a comma-separated string or JSON list.">>)

\* Python truthiness of an optional str / dict / list.
Truthy(x) == x.t # "None" /\ x.v # <<>>

\* A dict is the sequence of its (key, value) pairs in insertion order; the
\* pair is present only when the condition holds.
Opt(cond, key, val) == IF cond THEN <<<<key, val>>>> ELSE <<>>

\* ------------------------------------------------- read-only enforcement

\* A plausible slip: a mutating method on the allow-list.
ALLOWED_METHODS_with_write ==
    {"search_read", "read", "fields_get", "name_search", "write"}

ALLOWED_METHODS == {"search_read", "read", "fields_get", "name_search"}

Respond(r, status, detail, body) ==
    /\ resp' = [resp EXCEPT ![r] = [status |-> status, detail |-> detail, body |-> body]]
    /\ pc' = [pc EXCEPT ![r] = "done"]

\* A plausible slip: the call is sent without consulting the allow-list.
_odoo_call_unguarded(r, model, method, args, kwargs) ==
    /\ frame' = [frame EXCEPT ![r] = [model |-> model, method |-> method, allowed |-> FALSE]]
    /\ wire' = [wire EXCEPT ![r] = Append(@, [model |-> model, method |-> method,
                                              args |-> args, kwargs |-> kwargs])]
    /\ pc' = [pc EXCEPT ![r] = "waiting"]
    /\ UNCHANGED resp

\* _odoo_call up to the point where execute_kw is on the wire: the allow-list
\* check raises 403 outside the try block, so nothing rewrites it.
_odoo_call(r, model, method, args, kwargs) ==
    IF method \notin ALLOWED_METHODS
    THEN /\ frame' = [frame EXCEPT ![r] =
                        [model |-> model, method |-> method, allowed |-> FALSE]]
         /\ Respond(r, 403, <<"Method not allowed: ", method>>, <<>>)
         /\ UNCHANGED wire
    ELSE /\ frame' = [frame EXCEPT ![r] =
                        [model |-> model, method |-> method, allowed |-> TRUE]]
         /\ wire' = [wire EXCEPT ![r] = Append(@, [model |-> model, method |-> method,
                                                   args |-> args, kwargs |-> kwargs])]
         /\ pc' = [pc EXCEPT ![r] = "waiting"]
         /\ UNCHANGED resp

\* A helper raised before _odoo_call was entered.
Raise(r, exc) ==
    /\ Respond(r, exc.status, exc.detail, <<>>)
    /\ UNCHANGED <<frame, wire>>

\* ------------------------------------------------------------ endpoints

Arrive(r, body) ==
    /\ pc[r] = "idle"
    /\ req' = [req EXCEPT ![r] = body]
    /\ UNCHANGED <<reply, fin, fout>>

odoo_search_read(r, body) ==
    /\ Arrive(r, body)
    /\ LET domain == _parse_domain(body.domain)
           fields == _parse_fields(body.fields)
       IN  IF ~domain.ok THEN Raise(r, domain)
           ELSE IF ~fields.ok THEN Raise(r, fields)
           ELSE _odoo_call(r, body.model, "search_read", <<domain.val>>,
                           <<<<"fields", fields.val>>, <<"limit", body.limit>>,
                             <<"offset", body.offset>>>>
                           \o Opt(Truthy(body.order), "order", body.order)
                           \o Opt(Truthy(body.context), "context", body.context))

odoo_read(r, body) ==
    /\ Arrive(r, body)
    /\ LET fields == _parse_fields(body.fields)
       IN  IF ~fields.ok THEN Raise(r, fields)
           ELSE _odoo_call(r, body.model, "read", <<body.ids>>,
                           <<<<"fields", fields.val>>>>
                           \o Opt(Truthy(body.context), "context", body.context))

odoo_fields_get(r, body) ==
    /\ Arrive(r, body)
    /\ _odoo_call(r, body.model, "fields_get", <<>>,
                  Opt(Truthy(body.attributes), "attributes", body.attributes)
                  \o Opt(Truthy(body.context), "context", body.context))

odoo_name_search(r, body) ==
    /\ Arrive(r, body)
    /\ LET domain == _parse_domain(body.domain)
       IN  IF ~domain.ok THEN Raise(r, domain)
           ELSE _odoo_call(r, body.model, "name_search", <<PyStr(body.name), domain.val>>,
                           <<<<"limit", body.limit>>>>
                           \o Opt(Truthy(body.context), "context", body.context))

find_product_templates(r, body) ==
    /\ Arrive(r, body)
    /\ _odoo_call(r, "product.template", "search_read",
                  <<_token_or_domain(NAME, body.q)>>,
                  <<<<"fields", PyList(<<PyStr(<<"i", "d">>), PyStr(NAME)>>)>>,
                    <<"limit", body.limit>>>>)

\* rank(x) of find_product_templates: the non-empty pieces of the normalized
\* query that occur in the normalized name, counted with repetition.
rank(qn, x) ==
    LET name == _normalize(x.name)
        tokens == SelectSeq(split(qn, " "), LAMBDA t : t # <<>>)
    IN  Cardinality({i \in 1..Len(tokens) : contains(name, tokens[i])})

\* list.sort(key=..., reverse=True): descending by key, and stable (records
\* of equal key keep the order they came in).
RECURSIVE sort_reverse(_, _)
sort_reverse(xs, qn) ==
    IF xs = <<>> THEN <<>>
    ELSE LET x == xs[Len(xs)]
             done == sort_reverse(SubSeq(xs, 1, Len(xs) - 1), qn)
             ahead == {i \in 1..Len(done) : rank(qn, done[i]) >= rank(qn, x)}
             k == Cardinality(ahead)
         IN  SubSeq(done, 1, k) \o <<x>> \o SubSeq(done, k + 1, Len(done))

\* What the handler does with the value _odoo_call returned.
handler_tail(body, result) ==
    IF body.ep = "find_product_templates"
    THEN [query |-> body.q, results |-> sort_reverse(result, _normalize(body.q))]
    ELSE result

\* ------------------------------------------------- Remote Data Service

Answered(r, answer) ==
    /\ pc[r] = "waiting"
    /\ reply' = [reply EXCEPT ![r] = answer]
    /\ UNCHANGED <<req, frame, fin, fout>>

\* models.execute_kw returned a value: _odoo_call returns it to the handler.
execute_kw_returns(r, result) ==
    /\ Answered(r, [kind |-> "result", val |-> result])
    /\ Respond(r, 200, <<>>, handler_tail(req[r], result))
    /\ UNCHANGED wire

\* A plausible slip: the fault is caught and an empty result is answered.
execute_kw_faults_swallowed(r, faultString) ==
    /\ Answered(r, [kind |-> "fault", text |-> faultString])
    /\ Respond(r, 200, <<>>, <<>>)
    /\ UNCHANGED wire

\* models.execute_kw raised xmlrpc.client.Fault.
execute_kw_faults(r, faultString) ==
    /\ Answered(r, [kind |-> "fault", text |-> faultString])
    /\ Respond(r, 400, <<"Odoo Fault: ", faultString>>, <<>>)
    /\ UNCHANGED wire

\* A plausible slip: a failed call is sent a second time before giving up.
execute_kw_fails_retrying(r, message) ==
    /\ Answered(r, [kind |-> "error", text |-> message])
    /\ IF Len(wire[r]) < 2
       THEN /\ wire' = [wire EXCEPT ![r] = Append(@, @[1])]
            /\ UNCHANGED <<pc, resp>>
       ELSE /\ Respond(r, 500, <<"Server error: ", message>>, <<>>)
            /\ UNCHANGED wire

\* models.execute_kw raised anything else (transport, protocol, marshalling).
execute_kw_fails(r, message) ==
    /\ Answered(r, [kind |-> "error", text |-> message])
    /\ Respond(r, 500, <<"Server error: ", message>>, <<>>)
    /\ UNCHANGED wire

\* ------------------------------------------------------ helper inputs

Reqs == 1..MaxReq

StringsUpTo(chars, n) == UNION {[1..k -> chars] : k \in 0..n}

RECURSIVE Joined(_, _)
Joined(pieces, n) ==
    IF n = 0 THEN {<<>>}
    ELSE LET shorter == Joined(pieces, n - 1)
         IN  shorter \cup {s \o p : s \in shorter, p \in pieces}

NormChars == {"a", "A", " ", "TAB", "U+00E1", "U+0301", "U+00B4", "U+1D400"}

NormInputs == StringsUpTo(NormChars, MaxNormLen) \cup {None}

QueryPieces ==
    {<<"a">>, <<"b", "b">>, <<" ", "c", "c">>, <<" ">>, <<"U+00B4">>, <<"B", "U+00E1">>}

Queries == Joined(QueryPieces, MaxPieces)

Fields == {NAME, <<"c", "o", "d", "e">>}

GatewayIdle ==
    /\ pc = [r \in Reqs |-> "idle"]
    /\ req = [r \in Reqs |-> [ep |-> "none"]]
    /\ frame = [r \in Reqs |-> [model |-> "", method |-> "", allowed |-> FALSE]]
    /\ resp = [r \in Reqs |-> [status |-> 0, detail |-> <<>>, body |-> <<>>]]
    /\ wire = [r \in Reqs |-> <<>>]
    /\ reply = [r \in Reqs |-> [kind |-> "none"]]

GatewayVars == <<pc, req, frame, resp, wire, reply>>

\* ------------------------------------------- specification: _normalize

InitNorm ==
    /\ GatewayIdle
    /\ fin \in [s : NormInputs]
    /\ fout = <<>>

NormalizeOnce ==
    /\ fout = <<>>
    /\ fout' = <<_normalize(fin.s)>>
    /\ UNCHANGED <<fin, GatewayVars>>

NormalizeAgain ==
    /\ Len(fout) = 1
    /\ fout' = Append(fout, _normalize(fout[1]))
    /\ UNCHANGED <<fin, GatewayVars>>

NextNorm == NormalizeOnce \/ NormalizeAgain

SpecNorm == InitNorm /\ [][NextNorm]_vars

\* -------------------------------------- specification: _token_or_domain

InitTok ==
    /\ GatewayIdle
    /\ fin \in [field : Fields, q : Queries]
    /\ fout = <<>>

BuildDomain ==
    /\ fout = <<>>
    /\ fout' = <<_token_or_domain(fin.field, fin.q)>>
    /\ UNCHANGED <<fin, GatewayVars>>

NextTok == BuildDomain

SpecTok == InitTok /\ [][NextTok]_vars

\* ------------------------------------------------------ gateway inputs

Models == {"product.template", "res.partner"}

Methods == ALLOWED_METHODS \cup {"write", "unlink", "create"}

FaultStrings == {"Invalid field 'colour'"}

ErrorMessages == {"[Errno 111] Connection refused"}

HelperIdle == fin = <<>> /\ fout = <<>>

SearchReadReq(model, domain, fields, order, context) ==
    [ep |-> "search_read", model |-> model, domain |-> domain, fields |-> fields,
     limit |-> 80, offset |-> 0, order |-> order, context |-> context]

ReadReq(model, fields, context) ==
    [ep |-> "read", model |-> model, ids |-> PyList(<<PyInt(<<"1">>)>>),
     fields |-> fields, context |-> context]

FieldsGetReq(model, attributes, context) ==
    [ep |-> "fields_get", model |-> model, attributes |-> attributes,
     context |-> context]

NameSearchReq(model, name, domain, context) ==
    [ep |-> "name_search", model |-> model, name |-> name, domain |-> domain,
     limit |-> 10, context |-> context]

ProductSearchReq(q) == [ep |-> "find_product_templates", q |-> q, limit |-> 10]

Context == [t |-> "dict", v |-> <<<<"lang", "fr_FR">>>>]

\* Caller-supplied domains: absent, a structured list, and strings that are
\* blank, malformed, a JSON array.
SomeDomains ==
    {PyNone, PyList(<<>>), PyStr(<<" ">>), PyStr(<<"[">>), PyStr(<<"[", "]">>)}

SearchReads ==
    {SearchReadReq("res.partner", d, PyNone, PyNone, PyNone) : d \in SomeDomains}
    \cup {SearchReadReq("product.template", PyNone, PyStr(<<"a", ",", "1">>),
                        PyStr(NAME), Context)}

Reads == {ReadReq(m, PyNone, PyNone) : m \in Models}

FieldsGets ==
    {FieldsGetReq("res.partner", PyNone, PyNone),
     FieldsGetReq("product.template", PyList(<<PyStr(<<"t", "y", "p", "e">>)>>), Context)}

NameSearches ==
    {NameSearchReq("res.partner", <<"a">>, d, PyNone) : d \in {PyNone, PyStr(<<"[">>)}}

ProductSearches == {ProductSearchReq(<<"a", " ", "b", "b", " ", "c", "c">>)}

\* The product templates of the Remote Data Service.
Catalogue ==
    {[id |-> 1, name |-> <<"a", " ", "b", "b">>],
     [id |-> 2, name |-> <<"b", "b", " ", "c", "c">>],
     [id |-> 3, name |-> <<"C", "c">>]}

\* search_read answers with records that satisfy the domain: for an OR chain
\* of ilike leaves, the name contains one of the values, whatever the case.
Satisfies(rec, domain) ==
    \E i \in 1..Len(domain.v) :
        /\ domain.v[i].t = "list"
        /\ contains(lower(rec.name), lower(domain.v[i].v[3].v))

SeqsNoRep(S, n) ==
    {xs \in UNION {[1..k -> S] : k \in 0..n} :
        \A i, j \in 1..Len(xs) : i # j => xs[i] # xs[j]}

Rows == {<<>>, <<[id |-> 1, name |-> <<"a">>]>>}

\* The values execute_kw may return for request r's call.
RemoteResults(r) ==
    IF pc[r] # "waiting" THEN {}
    ELSE IF req[r].ep = "find_product_templates"
    THEN SeqsNoRep({rec \in Catalogue : Satisfies(rec, wire[r][1].args[1])}, MaxResults)
    ELSE Rows

RemoteReplies(r) ==
    \/ \E result \in RemoteResults(r) : execute_kw_returns(r, result)
    \/ \E f \in FaultStrings : execute_kw_faults(r, f)
    \/ \E m \in ErrorMessages : execute_kw_fails(r, m)

\* --------------------------------------------- specification: the gateway

Init == GatewayIdle /\ HelperIdle

Next ==
    \E r \in Reqs :
        \/ \E b \in SearchReads : odoo_search_read(r, b)
        \/ \E b \in Reads : odoo_read(r, b)
        \/ \E b \in FieldsGets : odoo_fields_get(r, b)
        \/ \E b \in NameSearches : odoo_name_search(r, b)
        \/ \E b \in ProductSearches : find_product_templates(r, b)
        \/ RemoteReplies(r)

Spec == Init /\ [][Next]_vars

\* ----------------------------------------- specification: _odoo_call alone

\* Any caller of _odoo_call, inside the gateway or not.
any_caller(r, model, method, args) ==
    /\ Arrive(r, [ep |-> "_odoo_call", model |-> model, method |-> method])
    /\ _odoo_call(r, model, method, args, <<>>)

NextCall ==
    \E r \in Reqs :
        \/ \E m \in Models, op \in Methods, args \in {<<>>, <<PyList(<<>>)>>} :
               any_caller(r, m, op, args)
        \/ RemoteReplies(r)

SpecCall == Init /\ [][NextCall]_vars

\* ------------------------------ specification: find_product_templates alone

FindPieces == {<<"a">>, <<" ", "b", "b">>, <<" ", "c", "c">>, <<"B">>}

FindQueries == Joined(FindPieces, MaxPieces)

NextFind ==
    \/ \E q \in FindQueries : find_product_templates(1, ProductSearchReq(q))
    \/ RemoteReplies(1)

SpecFind == Init /\ [][NextFind]_vars

\* ---------------------------------- specification: the domain parameter

DomainChars == {"[", "]", ",", "1", " ", "N", "a"}

DomainInputs ==
    {PyStr(d) : d \in StringsUpTo(DomainChars, MaxDomLen)}
    \cup {PyNone, PyList(<<>>), PyList(<<leaf(NAME, <<"a">>)>>)}

NextParse ==
    \/ \E d \in DomainInputs :
           odoo_search_read(1, SearchReadReq("res.partner", d, PyNone, PyNone, PyNone))
    \/ \E d \in DomainInputs :
           odoo_name_search(1, NameSearchReq("res.partner", <<"a">>, d, PyNone))
    \/ RemoteReplies(1)

SpecParse == Init /\ [][NextParse]_vars

\* ------------------------------------------------- claims on the helpers

\* The words of a string: its maximal runs of non-space characters, in order.
RECURSIVE WordsOf(_)
WordsOf(s) ==
    IF s = <<>> THEN <<>>
    ELSE IF Head(s) = " " THEN WordsOf(Tail(s))
    ELSE LET n == CHOOSE k \in 1..Len(s) :
                      /\ \A j \in 1..k : s[j] # " "
                      /\ (k = Len(s) \/ s[k + 1] = " ")
         IN  <<SubSeq(s, 1, n)>> \o WordsOf(SubSeq(s, n + 1, Len(s)))

LongWords(s) == SelectSeq(WordsOf(s), LAMBDA w : Len(w) >= 2)

\* The tokens a query is searched by: the words of length >= 2 of the
\* normalized query, or the whole normalized query when there is none.
UsedTokens(q) ==
    LET qn == _normalize(q)
    IN  IF LongWords(qn) = <<>> THEN <<qn>> ELSE LongWords(qn)

Built == fout # <<>>

\* C3: the domain built for N used tokens is N-1 OR markers followed by N
\* leaves (field, ilike, token) on the given field, one per token, in the
\* order of the tokens in the normalized query; N >= 1.
C3_OrChainShape ==
    Built =>
        LET dom == fout[1].v
            toks == UsedTokens(fin.q)
            N == Len(toks)
        IN  /\ N >= 1
            /\ fout[1].t = "list"
            /\ Len(dom) = 2 * N - 1
            /\ \A i \in 1..(N - 1) : dom[i] = [t |-> "str", v |-> <<"|">>]
            /\ \A i \in 1..N :
                 dom[N - 1 + i] =
                   [t |-> "list",
                    v |-> <<[t |-> "str", v |-> fin.field],
                            [t |-> "str", v |-> <<"i", "l", "i", "k", "e">>],
                            [t |-> "str", v |-> toks[i]]>>]

\* A domain of three distinct-position tokens: two OR markers, three leaves.
C3_Witness ==
    /\ Built
    /\ fin.q = <<"b", "b", " ", "c", "c", " ", "c", "c">>
    /\ Len(fout[1].v) = 5
    /\ fout[1].v[3].v[3].v = <<"b", "b">>

\* C4: when no word of the normalized query has length >= 2, the domain is
\* exactly one leaf whose value is the whole normalized query, no OR marker.
C4_FallbackWholeQuery ==
    (Built /\ LongWords(_normalize(fin.q)) = <<>>) =>
        fout[1] = [t |-> "list",
                   v |-> <<[t |-> "list",
                            v |-> <<[t |-> "str", v |-> fin.field],
                                    [t |-> "str", v |-> <<"i", "l", "i", "k", "e">>],
                                    [t |-> "str", v |-> _normalize(fin.q)]>>]>>]

\* The spec's example: field "name", query "a".
C4_Witness ==
    /\ Built
    /\ fin = [field |-> <<"n", "a", "m", "e">>, q |-> <<"a">>]
    /\ fout[1].v = <<[t |-> "list",
                      v |-> <<[t |-> "str", v |-> <<"n", "a", "m", "e">>],
                              [t |-> "str", v |-> <<"i", "l", "i", "k", "e">>],
                              [t |-> "str", v |-> <<"a">>]>>]>>

\* C5: normalizing a normalized string changes nothing.
C5_NormalizeIdempotent == Len(fout) = 2 => fout[2] = fout[1]

\* ------------------------------------------------ claims on the gateway

ReadOnlyOps == {"search_read", "read", "fields_get", "name_search"}

Carries(detail, text) == \E i \in 1..Len(detail) : detail[i] = text

\* C1: a call of _odoo_call with an operation outside the read-only four
\* ends with 403 Forbidden, for every model; execute_kw is not invoked, and
\* the 403 is not turned into a 400 or a 500.
C1_ForbiddenNeverSent ==
    \A r \in Reqs :
        (pc[r] # "idle" /\ req[r].method \notin ReadOnlyOps) =>
            /\ pc[r] = "done"
            /\ resp[r].status = 403
            /\ wire[r] = <<>>
            /\ reply[r].kind = "none"

\* An unlink is refused while a permitted call of another caller is in flight.
C1_Witness ==
    \E r, o \in Reqs :
        /\ pc[r] = "done" /\ req[r].method = "unlink" /\ resp[r].status = 403
        /\ pc[o] = "waiting" /\ req[o].model = req[r].model

\* C2: whatever requests arrive and however they interleave, every call on
\* the wire went through the allow-list check and names a read-only
\* operation; no create, write or unlink is sent.
C2_OnlyReadOnlyOnWire ==
    \A r \in Reqs : \A i \in 1..Len(wire[r]) :
        /\ wire[r][i].method \in ReadOnlyOps
        /\ wire[r][i].method \notin {"create", "write", "unlink"}
        /\ frame[r].allowed
        /\ frame[r].method = wire[r][i].method
        /\ frame[r].model = wire[r][i].model

\* Two requests of different endpoints have their calls in flight together.
C2_Witness ==
    \E r, o \in Reqs :
        /\ pc[r] = "waiting" /\ pc[o] = "waiting"
        /\ req[r].ep = "find_product_templates" /\ req[o].ep = "name_search"
        /\ Len(wire[r]) = 1 /\ Len(wire[o]) = 1

\* C8: a request sends at most one remote call and never repeats it; a
\* remote fault ends the request with 400 carrying the fault message, any
\* other failure of the call ends it with 500.
C8_SingleAttempt ==
    \A r \in Reqs :
        /\ Len(wire[r]) <= 1
        /\ reply[r].kind # "none" => (pc[r] = "done" /\ Len(wire[r]) = 1)
        /\ reply[r].kind = "fault" =>
               (resp[r].status = 400 /\ Carries(resp[r].detail, reply[r].text))
        /\ reply[r].kind = "error" => resp[r].status = 500

\* One request ended on a fault and another on a transport failure.
C8_Witness ==
    \E r, o \in Reqs :
        /\ reply[r].kind = "fault" /\ resp[r].status = 400
        /\ reply[o].kind = "error" /\ resp[o].status = 500

Overlap(q, rec) ==
    LET toks == LongWords(_normalize(q))
    IN  Cardinality({i \in 1..Len(toks) : contains(_normalize(rec.name), toks[i])})

IsPermutation(xs, ys) ==
    /\ Len(xs) = Len(ys)
    /\ \E f \in [1..Len(xs) -> 1..Len(xs)] :
           /\ \A i, j \in 1..Len(xs) : i # j => f[i] # f[j]
           /\ \A i \in 1..Len(xs) : xs[i] = ys[f[i]]

\* C6: the results of find_product_templates are a permutation of what the
\* remote returned, in descending order of token overlap.
C6_RankedByTokenOverlap ==
    \A r \in Reqs :
        (req[r].ep = "find_product_templates" /\ reply[r].kind = "result") =>
            LET out == resp[r].body.results
            IN  /\ IsPermutation(out, reply[r].val)
                /\ \A i, j \in 1..Len(out) :
                       i < j => Overlap(req[r].q, out[i]) >= Overlap(req[r].q, out[j])

\* JSON (RFC 8259) has no NaN: among the strings over [ ] , 1 N a and the
\* space, the well-formed ones are arrays and integers without any letter.
WellFormedJSON(d) ==
    /\ \A i \in 1..Len(d) : d[i] \notin {"N", "a"}
    /\ json_loads(d).ok

DomainSent(r) ==
    IF req[r].ep = "search_read" THEN wire[r][1].args[1] ELSE wire[r][1].args[2]

\* C7: a non-blank domain string that is not well-formed JSON ends the
\* request with 400 and no remote call; a null or blank domain is sent as
\* the empty list and a structured list is sent unchanged.
C7_MalformedDomainRejected ==
    \A r \in Reqs :
        pc[r] # "idle" =>
            LET d == req[r].domain
            IN  /\ (d.t = "str" /\ strip(d.v) # <<>> /\ ~WellFormedJSON(strip(d.v))) =>
                       (pc[r] = "done" /\ resp[r].status = 400 /\ wire[r] = <<>>)
                /\ (d.t = "None" \/ (d.t = "str" /\ strip(d.v) = <<>>)) =>
                       (Len(wire[r]) = 1 /\ DomainSent(r) = [t |-> "list", v |-> <<>>])
                /\ d.t = "list" => (Len(wire[r]) = 1 /\ DomainSent(r) = d)

\* C10: the domain argument search_read and name_search send is always a
\* list.
C10_DomainAlwaysList ==
    \A r \in Reqs :
        (req[r].ep \in {"search_read", "name_search"} /\ wire[r] # <<>>) =>
            DomainSent(r).t = "list"

====
